---- MODULE Spec2Model ----
(***************************************************************************)
(* Model of the API request client of the Blue-Chain dashboard script:     *)
(* apiRequest (the retrying orchestrator around fetch), categorizeAPIError *)
(* and shouldRetry, with the error classes they build and test;            *)
(* retryAPIRequest and handleAPIError; authenticateUser and the parallel   *)
(* requests of loadDashboardData; and the BlueCarbonCredit contract.       *)
(***************************************************************************)
EXTENDS Integers, Sequences, FiniteSets, TLC

(***************************************************************************)
(* Bounds of the model                                                     *)
(***************************************************************************)
\* number of apiRequest calls made one after the other in a behaviour
MaxRequests == 2

(***************************************************************************)
(* RETRY_CONFIG                                                            *)
(***************************************************************************)
maxRetries == 3

retryDelay == 1000

backoffMultiplier == 2

retryableStatuses == {408, 429, 500, 502, 503, 504}

(***************************************************************************)
(* JavaScript values                                                       *)
(***************************************************************************)
\* the value of a property that is not there
Undefined == "undefined"

\* the status of an error object that has no status property
NoStatus == 0

\* response.headers.get('content-type') when the header is absent
NoContentType == "null"

\* null
Null == "null"

\* false
False == "false"

\* a value v used as a condition, as in `v || w` or `if (v)`
Truthy(v) == v \notin {Undefined, Null, "", False}

\* a || b
OrElse(a, b) == IF Truthy(a) THEN a ELSE b

(***************************************************************************)
(* What the endpoint can answer                                            *)
(***************************************************************************)
Statuses == {200, 204, 304, 400, 401, 403, 404, 408, 409, 422, 429,
             500, 501, 502, 503, 504}

ContentTypes == {"application/json; charset=utf-8", "text/plain", NoContentType}

RawBodies == {"{\"ok\":true}", "{\"error\":\"oops\"}",
              "{\"message\":\"bad\",\"error\":\"oops\"}",
              "{\"message\":\"\",\"error\":\"oops\"}", "pong"}

Responses == [status : Statuses, contentType : ContentTypes, body : RawBodies]

\* the response of an attempt whose fetch rejected
NoResponse == [status |-> NoStatus, contentType |-> NoContentType, body |-> ""]

\* response.ok
ResponseOk_only200(status) == status = 200

ResponseOk(status) == status >= 200 /\ status <= 299

(***************************************************************************)
(* Decoding of the response body                                           *)
(***************************************************************************)
Value(type, message, error, ok, text) ==
    [type |-> type, message |-> message, error |-> error, ok |-> ok, text |-> text,
     success |-> Undefined, token |-> Undefined]

NullValue == Value("null", Undefined, Undefined, Undefined, "")

ObjectValue(message, error, ok) == Value("object", message, error, ok, "")

StringValue(text) == Value("string", Undefined, Undefined, Undefined, text)

\* the value of result before apiRequest has resolved
NoResult == Value("none", Undefined, Undefined, Undefined, "")

\* the body of the login endpoint: { success, message, data: { token } }
LoginValue(success, message, token) ==
    [ObjectValue(message, Undefined, Undefined) EXCEPT !.success = success,
                                                        !.token = token]

IsJsonContentType_exact(contentType) == contentType = "application/json"

\* contentType && contentType.includes('application/json')
IsJsonContentType(contentType) ==
    /\ contentType # NoContentType
    /\ contentType \in {"application/json", "application/json; charset=utf-8"}

\* the bodies response.json() rejects with a SyntaxError
JsonParses(raw) == raw # "pong"

\* response.json() on a body it accepts
JsonParse(raw) ==
    CASE raw = "{\"ok\":true}" -> ObjectValue(Undefined, Undefined, "true")
      [] raw = "{\"error\":\"oops\"}" -> ObjectValue(Undefined, "oops", Undefined)
      [] raw = "{\"message\":\"bad\",\"error\":\"oops\"}" ->
             ObjectValue("bad", "oops", Undefined)
      [] raw = "{\"message\":\"\",\"error\":\"oops\"}" ->
             ObjectValue("", "oops", Undefined)
      [] raw = "{\"success\":true,\"data\":{\"token\":\"tokenA\"}}" ->
             LoginValue("true", Undefined, "tokenA")
      [] raw = "{\"success\":true,\"data\":{\"token\":\"tokenB\"}}" ->
             LoginValue("true", Undefined, "tokenB")
      [] raw = "{\"success\":false,\"message\":\"bad\"}" ->
             LoginValue(False, "bad", Undefined)
      [] OTHER -> NullValue

\* whether the decoding at lines 196-201 completes without throwing
Decodes(response) ==
    IsJsonContentType(response.contentType) => JsonParses(response.body)

\* the value of `data` after lines 196-201
Decode(response) ==
    IF IsJsonContentType(response.contentType)
    THEN JsonParse(response.body)
    ELSE StringValue(response.body)

(***************************************************************************)
(* Error classes                                                           *)
(***************************************************************************)
Message(text, status) == [text |-> text, status |-> status]

\* `HTTP ${status} error`
HttpMessage(status) == Message("HTTP <status> error", status)

ErrorObject(cls, message, status, code, data) ==
    [cls |-> cls, message |-> message, status |-> status, code |-> code, data |-> data]

APIError(message, status, code, data) ==
    ErrorObject("APIError", message, status, code, data)

AuthenticationError(message) ==
    ErrorObject("AuthenticationError", message, 401, "AUTHENTICATION_ERROR", NullValue)

ValidationError(message, data) ==
    ErrorObject("ValidationError", message, 400, "VALIDATION_ERROR", data)

ServerError(message, status) ==
    ErrorObject("ServerError", message, status, "SERVER_ERROR", NullValue)

\* the error fetch rejects with when no response is received
FetchTypeError ==
    ErrorObject("TypeError", Message("Failed to fetch", NoStatus), NoStatus,
                Undefined, NullValue)

\* the error response.json() rejects with
JsonSyntaxError ==
    ErrorObject("SyntaxError", Message("Unexpected token", NoStatus), NoStatus,
                Undefined, NullValue)

\* the value of lastError before any attempt has failed
NoError == ErrorObject("none", Message("", NoStatus), NoStatus, Undefined, NullValue)

\* error instanceof cls
InstanceOf(error, cls) ==
    CASE cls = "APIError" ->
             error.cls \in {"APIError", "AuthenticationError", "ValidationError",
                            "ServerError"}
      [] OTHER -> error.cls = cls

(***************************************************************************)
(* categorizeAPIError                                                      *)
(***************************************************************************)
errorMessage_errorFirst(status, data) ==
    IF Truthy(OrElse(data.error, data.message))
    THEN Message(OrElse(data.error, data.message), NoStatus)
    ELSE HttpMessage(status)

\* data?.message || data?.error || `HTTP ${status} error`, line 234
errorMessage(status, data) ==
    IF Truthy(OrElse(data.message, data.error))
    THEN Message(OrElse(data.message, data.error), NoStatus)
    ELSE HttpMessage(status)

categorizeAPIError_422Unknown(status, data) ==
    LET message == errorMessage(status, data)
    IN  CASE status = 400 -> ValidationError(message, data)
          [] status = 401 -> AuthenticationError(message)
          [] status = 403 -> APIError(message, status, "FORBIDDEN", data)
          [] status = 404 -> APIError(message, status, "NOT_FOUND", data)
          [] status = 409 -> APIError(message, status, "CONFLICT", data)
          [] status = 429 -> APIError(message, status, "RATE_LIMITED", data)
          [] status \in {500, 502, 503, 504} -> ServerError(message, status)
          [] OTHER -> APIError(message, status, "UNKNOWN_ERROR", data)

categorizeAPIError(status, data) ==
    LET message == errorMessage(status, data)
    IN  CASE status = 400 -> ValidationError(message, data)
          [] status = 401 -> AuthenticationError(message)
          [] status = 403 -> APIError(message, status, "FORBIDDEN", data)
          [] status = 404 -> APIError(message, status, "NOT_FOUND", data)
          [] status = 409 -> APIError(message, status, "CONFLICT", data)
          [] status = 422 -> ValidationError(message, data)
          [] status = 429 -> APIError(message, status, "RATE_LIMITED", data)
          [] status \in {500, 502, 503, 504} -> ServerError(message, status)
          [] OTHER -> APIError(message, status, "UNKNOWN_ERROR", data)

(***************************************************************************)
(* shouldRetry                                                             *)
(***************************************************************************)
shouldRetry_anyAPIError(error, att) ==
    IF InstanceOf(error, "AuthenticationError") \/ InstanceOf(error, "ValidationError")
    THEN FALSE
    ELSE IF InstanceOf(error, "NetworkError")
    THEN TRUE
    ELSE InstanceOf(error, "APIError")

shouldRetry_serverOnly(error, att) ==
    IF InstanceOf(error, "AuthenticationError") \/ InstanceOf(error, "ValidationError")
    THEN FALSE
    ELSE IF InstanceOf(error, "NetworkError")
    THEN TRUE
    ELSE InstanceOf(error, "ServerError") /\ error.status \in retryableStatuses

shouldRetry_noFailFast(error, att) ==
    IF InstanceOf(error, "NetworkError")
    THEN TRUE
    ELSE InstanceOf(error, "APIError")

shouldRetry_untypedToo(error, att) ==
    IF InstanceOf(error, "AuthenticationError") \/ InstanceOf(error, "ValidationError")
    THEN FALSE
    ELSE IF InstanceOf(error, "NetworkError")
    THEN TRUE
    ELSE IF InstanceOf(error, "APIError")
    THEN error.status \in retryableStatuses
    ELSE TRUE

shouldRetry(error, att) ==
    IF InstanceOf(error, "AuthenticationError") \/ InstanceOf(error, "ValidationError")
    THEN FALSE
    ELSE IF InstanceOf(error, "NetworkError")
    THEN TRUE
    ELSE IF InstanceOf(error, "APIError") /\ error.status \in retryableStatuses
    THEN TRUE
    ELSE FALSE

(***************************************************************************)
(* apiRequest                                                              *)
(***************************************************************************)
RECURSIVE Pow(_, _)
\* Math.pow(base, exponent) for a natural exponent
Pow(base, exponent) == IF exponent = 0 THEN 1 ELSE base * Pow(base, exponent - 1)

backoffDelay_linear(att) == retryDelay * backoffMultiplier * att

\* the delay of line 219
backoffDelay(att) == retryDelay * Pow(backoffMultiplier, att)

LoopContinues_oneMore(att) == att <= maxRetries + 1

\* the condition of the while loop, line 190
LoopContinues(att) == att <= maxRetries

RecordError_keepFirst(previous, error) == IF previous = NoError THEN error ELSE previous

\* lastError = error, line 211
RecordError(previous, error) == error

(***************************************************************************)
(* The auth-token store and the headers of a request                       *)
(***************************************************************************)
\* localStorage.getItem('authToken') when no token is stored
NoToken == Null

Tokens == {"tokenA", "tokenB"}

\* `Bearer ${token}`
Bearer(token) ==
    CASE token = "tokenA" -> "Bearer tokenA"
      [] token = "tokenB" -> "Bearer tokenB"
      [] OTHER -> "Bearer"

\* a headers object: the value of each header name, Undefined when not set
Headers(contentType, authorization, xRequestedWith) ==
    [contentType |-> contentType, authorization |-> authorization,
     xRequestedWith |-> xRequestedWith]

HeaderNames == {"contentType", "authorization", "xRequestedWith"}

NoHeaders == Headers(Undefined, Undefined, Undefined)

\* { 'Content-Type': 'application/json' }, line 175
DefaultHeaders == Headers("application/json", Undefined, Undefined)

\* the options objects callers pass: the default {}, and two with a headers object
DefaultOptions == "none"

OptionsWithHeaders == {"custom", "plain"}

OptionIds == {DefaultOptions} \cup OptionsWithHeaders

\* the headers objects of the options objects as their callers built them
CallerHeaders ==
    [o \in OptionsWithHeaders |->
        IF o = "custom" THEN Headers(Undefined, Undefined, "XMLHttpRequest")
        ELSE Headers("text/plain", Undefined, Undefined)]

\* whether the options object has a headers property
HasHeaders(o) == o \in OptionsWithHeaders

\* { ...a, ...b }
Spread(a, b) == [h \in HeaderNames |-> IF b[h] # Undefined THEN b[h] ELSE a[h]]

\* the headers object built at lines 174-177
MergedHeaders(o, heap) ==
    Spread(DefaultHeaders, IF HasHeaders(o) THEN heap[o] ELSE NoHeaders)

\* the object config.headers refers to after `...options`, line 178: the
\* headers property of options, when it has one, replaces the merged object
ConfigHeadersRef(o) == IF HasHeaders(o) THEN o ELSE "fresh"

\* h.Authorization = `Bearer ${token}` if (token), lines 183-185
WithAuthorization(h, token) ==
    IF Truthy(token) THEN [h EXCEPT !.authorization = Bearer(token)] ELSE h

\* the headers object a reference denotes
Deref(ref, heap, fresh) == IF ref = "fresh" THEN fresh ELSE heap[ref]

(***************************************************************************)
(* handleAPIError and retryAPIRequest                                      *)
(***************************************************************************)
\* showNotification(message, type)
Notification(text, detail, type) == [text |-> text, detail |-> detail, type |-> type]

NoNotification == Notification("", Message("", NoStatus), "")

\* the notification handleAPIError shows for the error, lines 295-339
NotificationFor(error) ==
    IF InstanceOf(error, "AuthenticationError")
    THEN Notification("Your session has expired. Please log in again.",
                      Message("", NoStatus), "warning")
    ELSE IF InstanceOf(error, "ValidationError")
    THEN Notification("Validation Error: ", error.message, "error")
    ELSE IF InstanceOf(error, "NetworkError")
    THEN Notification("Network connection error. Please check your internet connection and try again.",
                      Message("", NoStatus), "error")
    ELSE IF InstanceOf(error, "ServerError")
    THEN Notification("Server is temporarily unavailable. Please try again later.",
                      Message("", NoStatus), "error")
    ELSE Notification("", error.message, "error")

TokenAfterHandling_anyAPIError(error, token) ==
    IF InstanceOf(error, "APIError") THEN NoToken ELSE token

TokenAfterHandling_keepsToken(error, token) == token

\* the stored token after handleAPIError(error): handleAuthenticationError
\* calls removeAuthToken, the other handlers leave the store alone
TokenAfterHandling(error, token) ==
    IF InstanceOf(error, "AuthenticationError") THEN NoToken ELSE token

\* whether handleAPIError(error) schedules the redirect to login.html
SchedulesRedirect(error) == InstanceOf(error, "AuthenticationError")

\* the default of the maxRetries parameter of retryAPIRequest
DefaultRetryCap == 2

\* the values callers pass for maxRetries
RetryCaps == {0, 1, DefaultRetryCap}

\* new NetworkError(message)
NetworkErrorObject ==
    ErrorObject("NetworkError", Message("offline", NoStatus), NoStatus, Undefined,
                NullValue)

\* the errors the operation passed to retryAPIRequest rejects with
OperationErrors ==
    {categorizeAPIError(status, ObjectValue(Undefined, "oops", Undefined)) :
        status \in {401, 404, 422, 429, 503}}
      \cup {FetchTypeError, NetworkErrorObject}

\* the values the operation passed to retryAPIRequest resolves with
OperationValues == {ObjectValue(Undefined, Undefined, "true")}

\* the statuses and bodies the endpoint answers with while tokens and
\* options vary
PlainResponses ==
    [status : {200, 401, 404, 500},
     contentType : {"application/json; charset=utf-8"},
     body : {"{\"error\":\"oops\"}"}]

(***************************************************************************)
(* authenticateUser and loadDashboardData                                  *)
(***************************************************************************)
\* what the login endpoint answers with
LoginResponses ==
    [status : {200}, contentType : {"application/json; charset=utf-8"},
     body : {"{\"success\":true,\"data\":{\"token\":\"tokenA\"}}",
             "{\"success\":true,\"data\":{\"token\":\"tokenB\"}}",
             "{\"success\":false,\"message\":\"bad\"}"}]
      \cup [status : {401, 422, 500},
            contentType : {"application/json; charset=utf-8"},
            body : {"{\"success\":false,\"message\":\"bad\"}", "{\"error\":\"oops\"}"}]
      \cup [status : {200}, contentType : {"text/plain"}, body : {"pong"}]

LoginSucceeds_anyObject(response) == response.type = "object"

\* if (response.success), line 815
LoginSucceeds(response) == Truthy(response.success)

\* number of requests loadDashboardData runs in parallel
MaxConcurrent == 2

DashboardRequests == 1 .. MaxConcurrent

\* what a fetch call of a dashboard request gets: a response, or no response
\* when it rejects
DashboardOutcomes == PlainResponses \cup {NoResponse}

\* the error the try block of an attempt throws, lines 192-207, NoError when
\* it returns
AttemptError(outcome) ==
    IF outcome = NoResponse THEN FetchTypeError
    ELSE IF ~Decodes(outcome) THEN JsonSyntaxError
    ELSE IF ~ResponseOk(outcome.status)
    THEN categorizeAPIError(outcome.status, Decode(outcome))
    ELSE NoError

RECURSIVE RunAlone(_, _, _)
\* the loop of apiRequest, lines 187-230, run by itself from attempt att on
\* the outcomes its fetch calls get: the number of fetch calls, the delays and
\* the result or the error it ends with
RunAlone(transport, att, last) ==
    IF ~LoopContinues(att)
    THEN [settled |-> TRUE, calls |-> 0, delays |-> <<>>, result |-> NoResult,
          thrown |-> last]
    ELSE IF transport = <<>>
    THEN [settled |-> FALSE, calls |-> 1, delays |-> <<>>, result |-> NoResult,
          thrown |-> NoError]
    ELSE LET error == AttemptError(Head(transport))
         IN  IF error = NoError
             THEN [settled |-> TRUE, calls |-> 1, delays |-> <<>>,
                   result |-> Decode(Head(transport)), thrown |-> NoError]
             ELSE IF ~shouldRetry(error, att)
             THEN [settled |-> TRUE, calls |-> 1, delays |-> <<>>,
                   result |-> NoResult, thrown |-> RecordError(last, error)]
             ELSE LET rest == RunAlone(Tail(transport), att + 1,
                                       RecordError(last, error))
                  IN  [rest EXCEPT !.calls = @ + 1,
                                   !.delays = <<backoffDelay(att)>> \o @]

RECURSIVE TokenAfterHandlingAll(_, _)
\* the stored token after handleAPIError has been called with each error
TokenAfterHandlingAll(errors, token) ==
    IF errors = <<>> THEN token
    ELSE TokenAfterHandlingAll(Tail(errors), TokenAfterHandling(Head(errors), token))

VARIABLES
    authToken,      \* localStorage item 'authToken'
    optionsHeaders, \* the headers objects of the callers' options objects
    optionsArg,     \* the options object the running request was called with
    headersAtCall,  \* optionsHeaders when the running request was called
    configRef,      \* the object config.headers refers to
    freshHeaders,   \* the headers object built at lines 174-177
    sentHeaders,    \* the headers the latest fetch call carried
    tokenAtFetch,   \* the stored token when the latest fetch call was made
    pc,          \* where the running apiRequest is suspended
    attempt,     \* let attempt
    lastError,   \* let lastError
    result,      \* the value apiRequest resolved with
    thrown,      \* the error apiRequest rejected with
    calls,       \* number of fetch calls of the running request
    delays,      \* the delays of the timers the running request has set
    consulted,   \* the attempt indices at which shouldRetry was called
    history,     \* what each completed attempt of the running request got
    lastOutcome, \* the response the latest attempt got, until the next fetch
    requests,    \* number of apiRequest calls started
    rpc,              \* where the running retryAPIRequest is suspended
    rMaxRetries,      \* its maxRetries parameter
    rAttempt,         \* its attempt
    rLastError,       \* its lastError
    rResult,          \* the value it resolved with
    rThrown,          \* the error it rejected with
    rInvocations,     \* number of requestFn calls of the running retryAPIRequest
    rDelays,          \* the delays of the timers it has set
    hookCalls,        \* the errors it has passed to handleAPIError
    notification,     \* the latest showNotification(message, type)
    redirectScheduled, \* whether the redirect to login.html has been scheduled
    lpc,        \* where the running authenticateUser is suspended
    lReturned,  \* the value authenticateUser returned
    lHandled,   \* the error authenticateUser passed to handleAPIError
    dpc,        \* where each request of loadDashboardData is suspended
    dAttempt,   \* let attempt of each of them
    dLastError, \* let lastError of each of them
    dResult,    \* the value each of them resolved with
    dThrown,    \* the error each of them rejected with
    dCalls,     \* number of fetch calls of each of them
    dDelays,    \* the delays of the timers each of them has set
    dTransport, \* what the fetch calls of each of them got, in order
    dPhase,     \* where loadDashboardData is
    dHandled    \* the errors loadDashboardData passed to handleAPIError

(***************************************************************************)
(* The BlueCarbonCredit contract                                           *)
(***************************************************************************)
\* the accounts that call the contract; the deployer constructs it
Accounts == {"deployer", "alice"}

Deployer == "deployer"

\* address(0)
ZeroAddress == "0x0"

RoleNames == {"DEFAULT_ADMIN_ROLE", "REGISTRY_ADMIN_ROLE", "VERIFIER_ROLE",
              "AUDITOR_ROLE", "MRV_OPERATOR_ROLE"}

\* number of projects, reports, batches and tokens created in a behaviour
MaxProjects == 1

MaxReports == 2

MaxBatches == MaxProjects

MaxTokens == 2

ProjectIds == 0 .. MaxProjects - 1

ReportIds == 0 .. MaxReports - 1

BatchIds == 0 .. MaxBatches - 1

TokenIds == 0 .. MaxTokens - 1

\* the accounts the registry admin grants roles to
Grantees == {"alice"}

\* the arguments the callers pass
ProjectNames == {"", "Sundarbans"}

Locations == {"", "Odisha"}

Areas == {0, 10}

ReportingPeriods == {<<1, 2>>, <<2, 2>>}

MeasuredCarbons == {5}

TotalCredits == {0, 2}

MintedCredits == {1, 3}

\* enum ProjectStatus, lines 30-39
ProjectStatuses == <<"Registered", "UnderReview", "Verified", "Approved", "Active",
                     "Completed", "Rejected", "Retired">>

\* the value of a member of the enum
StatusRank(status) == CHOOSE k \in 1 .. Len(ProjectStatuses) : ProjectStatuses[k] = status

\* struct Project: the fields the contract reads again
Project(projectOwner, status, carbon, verifier, approvedBy, transferable, retired, reports) ==
    [projectOwner |-> projectOwner, status |-> status, carbonAmount |-> carbon,
     verifier |-> verifier, approvedBy |-> approvedBy,
     isTransferable |-> transferable, isRetired |-> retired, mrvReports |-> reports]

\* projects[projectId] of an id never written
NoProject ==
    Project(ZeroAddress, "Registered", 0, ZeroAddress, ZeroAddress, FALSE, FALSE, <<>>)

\* struct MRVReport
MRVReport(projectId, measuredCarbon, reporter, verifier, isVerified) ==
    [projectId |-> projectId, measuredCarbon |-> measuredCarbon, reporter |-> reporter,
     verifier |-> verifier, isVerified |-> isVerified]

NoMRVReport == MRVReport(0, 0, ZeroAddress, ZeroAddress, FALSE)

\* struct CreditBatch
CreditBatch(projectId, totalCredits, availableCredits, issuer, isActive) ==
    [projectId |-> projectId, totalCredits |-> totalCredits,
     availableCredits |-> availableCredits, issuer |-> issuer, isActive |-> isActive]

NoCreditBatch == CreditBatch(0, 0, 0, ZeroAddress, FALSE)

\* a call of a function of the contract and whether it reverted
\* id is the report, batch or token the call names, arg the credits asked of
\* mintCredit or whether verifyMRVReport was called with approved (1) or not (0)
Call(op, sender, id, arg, reverted) ==
    [op |-> op, sender |-> sender, id |-> id, arg |-> arg, reverted |-> reverted]

NoCall == Call("constructor", Deployer, 0, 0, FALSE)

CanApprove_anyStatus(status) == TRUE

\* require(projects[projectId].status == ProjectStatus.Verified), line 312
CanApprove(status) == status = "Verified"

\* require(projects[projectId].status == ProjectStatus.Approved), line 329
CanIssue(status) == status = "Approved"

CanVerify_again(report) == report.reporter # ZeroAddress

\* the two requires of verifyMRVReport, lines 286-287
CanVerify(report) == report.reporter # ZeroAddress /\ ~report.isVerified

AvailableAfterMint_unchanged(available, credits) == available

\* creditBatches[batchId].availableCredits -= credits, line 373
AvailableAfterMint(available, credits) == available - credits

VARIABLES
    roles,                \* AccessControl: the accounts that have each role
    owner,                \* Ownable: the owner
    paused,               \* Pausable: whether the contract is paused
    projectIdCounter,     \* _projectIdCounter
    mrvReportIdCounter,   \* _mrvReportIdCounter
    creditBatchIdCounter, \* _creditBatchIdCounter
    tokenIdCounter,       \* _tokenIdCounter
    projects,             \* mapping projects
    mrvReports,           \* mapping mrvReports
    creditBatches,        \* mapping creditBatches
    tokenOwner,           \* ERC721: the owner of each token, address(0) if none
    tokenToProject,       \* mapping tokenToProject
    tokenToBatch,         \* mapping tokenToBatch
    lastCall              \* the latest call and whether it reverted

counterVars == <<projectIdCounter, mrvReportIdCounter, creditBatchIdCounter,
                 tokenIdCounter>>

tokenVars == <<tokenOwner, tokenToProject, tokenToBatch>>

contractState == <<roles, owner, paused, counterVars, projects, mrvReports,
                   creditBatches, tokenVars>>

contractVars == <<contractState, lastCall>>

\* the constructor, lines 173-177, run by the deployer
ContractInit ==
    /\ roles = [role \in RoleNames |->
                   IF role \in {"DEFAULT_ADMIN_ROLE", "REGISTRY_ADMIN_ROLE",
                                "VERIFIER_ROLE"}
                   THEN {Deployer} ELSE {}]
    /\ owner = Deployer
    /\ paused = FALSE
    /\ projectIdCounter = 0
    /\ mrvReportIdCounter = 0
    /\ creditBatchIdCounter = 0
    /\ tokenIdCounter = 0
    /\ projects = [p \in ProjectIds |-> NoProject]
    /\ mrvReports = [r \in ReportIds |-> NoMRVReport]
    /\ creditBatches = [b \in BatchIds |-> NoCreditBatch]
    /\ tokenOwner = [t \in TokenIds |-> ZeroAddress]
    /\ tokenToProject = [t \in TokenIds |-> 0]
    /\ tokenToBatch = [t \in TokenIds |-> 0]
    /\ lastCall = NoCall

hasRole(role, account) == account \in roles[role]

\* modifier onlyVerifier, lines 180-183
onlyVerifier(sender) == hasRole("VERIFIER_ROLE", sender)

onlyRegistryAdmin_anyone(sender) == TRUE

\* modifier onlyRegistryAdmin, lines 190-193
onlyRegistryAdmin(sender) == hasRole("REGISTRY_ADMIN_ROLE", sender)

\* modifier onlyMRVOperator, lines 195-198
onlyMRVOperator(sender) == hasRole("MRV_OPERATOR_ROLE", sender)

\* modifier onlyOwner of Ownable
onlyOwner(sender) == sender = owner

TransferAllowed_whilePaused(tokenId, project) == projects[project].isTransferable

\* _beforeTokenTransfer, lines 531-547, does not revert for the token
TransferAllowed(tokenId, project) ==
    /\ ~paused
    /\ projects[project].isTransferable

requestVars == <<pc, attempt, lastError, result, thrown, calls, delays, consulted,
                 history, lastOutcome, requests>>

headerVars == <<optionsHeaders, optionsArg, headersAtCall, configRef, freshHeaders,
                sentHeaders, tokenAtFetch>>

retryVars == <<rpc, rMaxRetries, rAttempt, rLastError, rResult, rThrown,
               rInvocations, rDelays, hookCalls>>

uiVars == <<notification, redirectScheduled>>

loginVars == <<lpc, lReturned, lHandled>>

dashboardVars == <<dpc, dAttempt, dLastError, dResult, dThrown, dCalls, dDelays,
                   dTransport, dPhase, dHandled>>

clientVars == <<authToken, headerVars, requestVars, retryVars, uiVars, loginVars,
                dashboardVars>>

vars == <<clientVars, contractVars>>

\* what an attempt got: a rejected fetch, or a response and whether it decoded
Rejected == [kind |-> "rejected", status |-> NoStatus, decoded |-> FALSE]

Responded(response) ==
    [kind |-> "response", status |-> response.status, decoded |-> Decodes(response)]

Init ==
    /\ pc = "idle"
    /\ attempt = 0
    /\ lastError = NoError
    /\ result = NoResult
    /\ thrown = NoError
    /\ calls = 0
    /\ delays = <<>>
    /\ consulted = <<>>
    /\ history = <<>>
    /\ lastOutcome = NoResponse
    /\ requests = 0
    /\ authToken = NoToken
    /\ optionsHeaders = CallerHeaders
    /\ optionsArg = DefaultOptions
    /\ headersAtCall = CallerHeaders
    /\ configRef = "fresh"
    /\ freshHeaders = NoHeaders
    /\ sentHeaders = NoHeaders
    /\ tokenAtFetch = NoToken
    /\ rpc = "idle"
    /\ rMaxRetries = DefaultRetryCap
    /\ rAttempt = 0
    /\ rLastError = NoError
    /\ rResult = NoResult
    /\ rThrown = NoError
    /\ rInvocations = 0
    /\ rDelays = <<>>
    /\ hookCalls = <<>>
    /\ notification = NoNotification
    /\ redirectScheduled = FALSE
    /\ lpc = "idle"
    /\ lReturned = Undefined
    /\ lHandled = NoError
    /\ dpc = [i \in DashboardRequests |-> "idle"]
    /\ dAttempt = [i \in DashboardRequests |-> 0]
    /\ dLastError = [i \in DashboardRequests |-> NoError]
    /\ dResult = [i \in DashboardRequests |-> NoResult]
    /\ dThrown = [i \in DashboardRequests |-> NoError]
    /\ dCalls = [i \in DashboardRequests |-> 0]
    /\ dDelays = [i \in DashboardRequests |-> <<>>]
    /\ dTransport = [i \in DashboardRequests |-> <<>>]
    /\ dPhase = "idle"
    /\ dHandled = <<>>
    /\ ContractInit

\* lines 171-192: the call of apiRequest(endpoint, options) up to the first
\* await of fetch
CallRequest(options) ==
    /\ pc \in {"idle", "done", "failed"}
    /\ rpc \in {"idle", "done", "failed"}
    /\ requests < MaxRequests
    /\ UNCHANGED <<retryVars, uiVars, dashboardVars, contractVars>>
    /\ optionsArg' = options
    /\ headersAtCall' = optionsHeaders
    /\ configRef' = ConfigHeadersRef(options)
    /\ IF ConfigHeadersRef(options) = "fresh"
       THEN /\ freshHeaders' =
                  WithAuthorization(MergedHeaders(options, optionsHeaders), authToken)
            /\ optionsHeaders' = optionsHeaders
       ELSE /\ freshHeaders' = MergedHeaders(options, optionsHeaders)
            /\ optionsHeaders' =
                  [optionsHeaders EXCEPT ![options] = WithAuthorization(@, authToken)]
    /\ sentHeaders' = Deref(configRef', optionsHeaders', freshHeaders')
    /\ tokenAtFetch' = authToken
    /\ authToken' = authToken
    /\ requests' = requests + 1
    /\ attempt' = 0
    /\ lastError' = NoError
    /\ result' = NoResult
    /\ thrown' = NoError
    /\ delays' = <<>>
    /\ consulted' = <<>>
    /\ history' = <<>>
    /\ lastOutcome' = NoResponse
    /\ IF LoopContinues(0)
       THEN pc' = "awaitFetch" /\ calls' = 1
       ELSE pc' = "failed" /\ calls' = 0

\* apiRequest(endpoint, options) called by the page, no login running
StartRequestWith(options) ==
    /\ lpc \in {"idle", "returned"}
    /\ CallRequest(options)
    /\ UNCHANGED loginVars

\* apiRequest(endpoint): options = {}
StartRequest == StartRequestWith(DefaultOptions)

\* apiRequest(endpoint, options) with any of the callers' options objects
StartRequestAny == \E options \in OptionIds : StartRequestWith(options)

\* lines 210-223: the catch block, run with the error the try block threw
Catch(error) ==
    /\ lastError' = RecordError(lastError, error)
    /\ consulted' = Append(consulted, attempt)
    /\ IF ~shouldRetry(error, attempt)
       THEN \* break, then lines 228-229
            /\ pc' = "failed"
            /\ thrown' = RecordError(lastError, error)
            /\ delays' = delays
       ELSE \* line 222: wait for the timer
            /\ pc' = "awaitDelay"
            /\ thrown' = thrown
            /\ delays' = Append(delays, backoffDelay(attempt))
    /\ UNCHANGED <<attempt, result, calls, requests>>

\* line 192 rejects: no response was received
FetchRejects ==
    /\ pc = "awaitFetch"
    /\ history' = Append(history, Rejected)
    /\ lastOutcome' = NoResponse
    /\ Catch(FetchTypeError)
    /\ UNCHANGED <<authToken, headerVars, retryVars, uiVars>>
    /\ UNCHANGED <<loginVars, dashboardVars, contractVars>>

\* line 192 resolves with a response of the set: lines 194-209, and the catch
\* block
FetchRespondsFrom(responses) ==
    /\ pc = "awaitFetch"
    /\ UNCHANGED <<authToken, headerVars, retryVars, uiVars>>
    /\ UNCHANGED <<loginVars, dashboardVars, contractVars>>
    /\ \E response \in responses :
          /\ history' = Append(history, Responded(response))
          /\ lastOutcome' = response
          /\ IF ~Decodes(response)
             THEN Catch(JsonSyntaxError)
             ELSE IF ~ResponseOk(response.status)
             THEN Catch(categorizeAPIError(response.status, Decode(response)))
             ELSE /\ pc' = "done"
                  /\ result' = Decode(response)
                  /\ UNCHANGED <<attempt, lastError, thrown, calls, delays,
                                 consulted, requests>>

FetchResponds == FetchRespondsFrom(Responses)

TimerFires_neverResolves ==
    /\ pc = "awaitDelay"
    /\ UNCHANGED vars

\* line 222 resolves: attempt++, the loop test, and the next fetch or the throw
TimerFires ==
    /\ pc = "awaitDelay"
    /\ attempt' = attempt + 1
    /\ IF LoopContinues(attempt + 1)
       THEN /\ pc' = "awaitFetch"
            /\ calls' = calls + 1
            /\ thrown' = thrown
            /\ lastOutcome' = NoResponse
            /\ sentHeaders' = Deref(configRef, optionsHeaders, freshHeaders)
            /\ tokenAtFetch' = authToken
       ELSE /\ pc' = "failed"
            /\ calls' = calls
            /\ thrown' = lastError
            /\ lastOutcome' = lastOutcome
            /\ UNCHANGED <<sentHeaders, tokenAtFetch>>
    /\ UNCHANGED <<lastError, result, delays, consulted, history, requests>>
    /\ UNCHANGED <<authToken, optionsHeaders, optionsArg, headersAtCall, configRef,
                   freshHeaders, retryVars, uiVars>>
    /\ UNCHANGED <<loginVars, dashboardVars, contractVars>>

\* setAuthToken(token), lines 476-478
SetAuthToken ==
    /\ \E token \in Tokens : authToken' = token
    /\ UNCHANGED <<headerVars, requestVars, retryVars, uiVars>>
    /\ UNCHANGED <<loginVars, dashboardVars, contractVars>>

\* removeAuthToken(), lines 484-486
RemoveAuthToken ==
    /\ authToken' = NoToken
    /\ UNCHANGED <<headerVars, requestVars, retryVars, uiVars>>
    /\ UNCHANGED <<loginVars, dashboardVars, contractVars>>

\* handleAPIError(error, context), lines 282-306
HandleAPIError(error) ==
    /\ authToken' = TokenAfterHandling(error, authToken)
    /\ notification' = NotificationFor(error)
    /\ redirectScheduled' = (redirectScheduled \/ SchedulesRedirect(error))

\* lines 394-395: handleAPIError(lastError, context); throw lastError
RetryGivesUp_withoutHook(error) ==
    /\ rThrown' = error
    /\ rpc' = "failed"
    /\ UNCHANGED <<hookCalls, authToken, uiVars>>

RetryGivesUp(error) ==
    /\ hookCalls' = Append(hookCalls, error)
    /\ HandleAPIError(error)
    /\ rThrown' = error
    /\ rpc' = "failed"

\* the condition of the for loop, line 378
RetryLoopContinues(att, cap) == att <= cap

RetriesFailure_ignoresPolicy(error, att, cap) == att < cap

RetriesFailure_noCapGuard(error, att, cap) == shouldRetry(error, att)

\* the condition of line 384
RetriesFailure(error, att, cap) == att < cap /\ shouldRetry(error, att)

\* lines 375-380: the call of retryAPIRequest(requestFn, maxRetries) up to the
\* first await of requestFn
RetryStart ==
    /\ rpc \in {"idle", "done", "failed"}
    /\ pc \in {"idle", "done", "failed"}
    /\ lpc \in {"idle", "returned"}
    /\ \E cap \in RetryCaps :
          /\ rMaxRetries' = cap
          /\ rAttempt' = 0
          /\ rLastError' = NoError
          /\ rResult' = NoResult
          /\ rDelays' = <<>>
          /\ IF RetryLoopContinues(0, cap)
             THEN /\ rpc' = "awaitFn"
                  /\ rInvocations' = 1
                  /\ rThrown' = NoError
                  /\ hookCalls' = <<>>
                  /\ UNCHANGED <<authToken, uiVars>>
             ELSE /\ rInvocations' = 0
                  /\ hookCalls' = <<NoError>>
                  /\ HandleAPIError(NoError)
                  /\ rThrown' = NoError
                  /\ rpc' = "failed"
    /\ UNCHANGED <<headerVars, requestVars>>
    /\ UNCHANGED <<loginVars, dashboardVars, contractVars>>

\* line 380: requestFn resolves and retryAPIRequest returns its value
RetryOperationResolves ==
    /\ rpc = "awaitFn"
    /\ \E value \in OperationValues : rResult' = value
    /\ rpc' = "done"
    /\ UNCHANGED <<rMaxRetries, rAttempt, rLastError, rThrown, rInvocations, rDelays,
                   hookCalls>>
    /\ UNCHANGED <<authToken, headerVars, requestVars, uiVars>>
    /\ UNCHANGED <<loginVars, dashboardVars, contractVars>>

\* line 380: requestFn rejects; lines 381-391, and lines 394-395 after a break
RetryOperationRejects ==
    /\ rpc = "awaitFn"
    /\ \E error \in OperationErrors :
          /\ rLastError' = error
          /\ IF RetriesFailure(error, rAttempt, rMaxRetries)
             THEN /\ rDelays' = Append(rDelays, backoffDelay(rAttempt))
                  /\ rpc' = "awaitDelay"
                  /\ UNCHANGED <<rThrown, hookCalls, authToken, uiVars>>
             ELSE /\ RetryGivesUp(error)
                  /\ rDelays' = rDelays
    /\ UNCHANGED <<rMaxRetries, rAttempt, rResult, rInvocations>>
    /\ UNCHANGED <<headerVars, requestVars>>
    /\ UNCHANGED <<loginVars, dashboardVars, contractVars>>

\* line 386 resolves: continue, attempt++, the loop test and the next call of
\* requestFn, or lines 394-395
RetryTimerFires ==
    /\ rpc = "awaitDelay"
    /\ rAttempt' = rAttempt + 1
    /\ IF RetryLoopContinues(rAttempt + 1, rMaxRetries)
       THEN /\ rpc' = "awaitFn"
            /\ rInvocations' = rInvocations + 1
            /\ UNCHANGED <<rThrown, hookCalls, authToken, uiVars>>
       ELSE /\ rInvocations' = rInvocations
            /\ RetryGivesUp(rLastError)
    /\ UNCHANGED <<rMaxRetries, rLastError, rResult, rDelays>>
    /\ UNCHANGED <<headerVars, requestVars>>
    /\ UNCHANGED <<loginVars, dashboardVars, contractVars>>

FetchRespondsPlainly == FetchRespondsFrom(PlainResponses)

\* lines 792-813: authenticateUser(userType, data) up to the await of
\* apiRequest('/auth/login', { method: 'POST', body })
AuthenticateUser ==
    /\ lpc \in {"idle", "returned"}
    /\ CallRequest(DefaultOptions)
    /\ lpc' = "awaitRequest"
    /\ lReturned' = Undefined
    /\ lHandled' = NoError

\* lines 815-819 when apiRequest resolved, lines 820-823 when it rejected
AuthenticateUserReturns ==
    /\ lpc = "awaitRequest"
    /\ pc \in {"done", "failed"}
    /\ lpc' = "returned"
    /\ IF pc = "done"
       THEN /\ lHandled' = NoError
            /\ IF LoginSucceeds(result)
               THEN authToken' = result.token /\ lReturned' = "true"
               ELSE authToken' = authToken /\ lReturned' = False
            /\ UNCHANGED uiVars
       ELSE /\ lHandled' = thrown
            /\ HandleAPIError(thrown)
            /\ lReturned' = False
    /\ UNCHANGED <<headerVars, requestVars, retryVars, dashboardVars, contractVars>>

FetchRespondsToLogin == FetchRespondsFrom(LoginResponses)

AttemptOf_shared(i) == dAttempt[1]

\* let attempt of the i-th running apiRequest, line 188
AttemptOf(i) == dAttempt[i]

\* lines 1012-1020: loadDashboardData calls apiRequest once per endpoint, each
\* call running up to its first await of fetch
LoadDashboardData ==
    /\ dPhase = "idle"
    /\ dPhase' = "loading"
    /\ dpc' = [i \in DashboardRequests |->
                  IF LoopContinues(0) THEN "awaitFetch" ELSE "failed"]
    /\ dCalls' = [i \in DashboardRequests |-> IF LoopContinues(0) THEN 1 ELSE 0]
    /\ dAttempt' = [i \in DashboardRequests |-> 0]
    /\ UNCHANGED <<dLastError, dResult, dThrown, dDelays, dTransport, dHandled>>
    /\ UNCHANGED <<authToken, headerVars, requestVars, retryVars, uiVars, loginVars,
                   contractVars>>

\* lines 210-223 in the i-th request
DashboardCatch(i, error) ==
    /\ dLastError' = [dLastError EXCEPT ![i] = RecordError(@, error)]
    /\ IF ~shouldRetry(error, AttemptOf(i))
       THEN /\ dpc' = [dpc EXCEPT ![i] = "failed"]
            /\ dThrown' = [dThrown EXCEPT ![i] = RecordError(dLastError[i], error)]
            /\ dDelays' = dDelays
       ELSE /\ dpc' = [dpc EXCEPT ![i] = "awaitDelay"]
            /\ dThrown' = dThrown
            /\ dDelays' = [dDelays EXCEPT ![i] = Append(@, backoffDelay(AttemptOf(i)))]
    /\ UNCHANGED <<dAttempt, dResult, dCalls>>

\* line 192 of one of the running requests settles: lines 194-209, or the
\* catch block
DashboardFetchSettles ==
    /\ \E i \in DashboardRequests :
          /\ dpc[i] = "awaitFetch"
          /\ \E outcome \in DashboardOutcomes :
                /\ dTransport' = [dTransport EXCEPT ![i] = Append(@, outcome)]
                /\ IF AttemptError(outcome) = NoError
                   THEN /\ dpc' = [dpc EXCEPT ![i] = "done"]
                        /\ dResult' = [dResult EXCEPT ![i] = Decode(outcome)]
                        /\ UNCHANGED <<dAttempt, dLastError, dThrown, dCalls, dDelays>>
                   ELSE /\ DashboardCatch(i, AttemptError(outcome))
    /\ UNCHANGED <<dPhase, dHandled>>
    /\ UNCHANGED <<authToken, headerVars, requestVars, retryVars, uiVars, loginVars,
                   contractVars>>

\* line 222 of one of the running requests resolves: attempt++, the loop
\* test, and the next fetch or the throw
DashboardTimerFires ==
    /\ \E i \in DashboardRequests :
          /\ dpc[i] = "awaitDelay"
          /\ dAttempt' = [dAttempt EXCEPT ![i] = AttemptOf(i) + 1]
          /\ IF LoopContinues(AttemptOf(i) + 1)
             THEN /\ dpc' = [dpc EXCEPT ![i] = "awaitFetch"]
                  /\ dCalls' = [dCalls EXCEPT ![i] = @ + 1]
                  /\ dThrown' = dThrown
             ELSE /\ dpc' = [dpc EXCEPT ![i] = "failed"]
                  /\ dCalls' = dCalls
                  /\ dThrown' = [dThrown EXCEPT ![i] = dLastError[i]]
    /\ UNCHANGED <<dLastError, dResult, dDelays, dTransport, dPhase, dHandled>>
    /\ UNCHANGED <<authToken, headerVars, requestVars, retryVars, uiVars, loginVars,
                   contractVars>>

RECURSIVE RejectedReasons(_)
\* result.reason of the rejected ones of the first n requests, in order
RejectedReasons(n) ==
    IF n = 0 THEN <<>>
    ELSE RejectedReasons(n - 1) \o (IF dpc[n] = "failed" THEN <<dThrown[n]>> ELSE <<>>)

\* lines 1022-1047: Promise.allSettled has resolved; handleAPIError is called
\* with the reason of each rejected request, in the order of the array
DashboardReports ==
    /\ dPhase = "loading"
    /\ \A i \in DashboardRequests : dpc[i] \in {"done", "failed"}
    /\ dPhase' = "loaded"
    /\ LET reasons == RejectedReasons(MaxConcurrent)
       IN  /\ dHandled' = reasons
           /\ authToken' = TokenAfterHandlingAll(reasons, authToken)
           /\ notification' =
                 IF reasons = <<>> THEN notification
                 ELSE NotificationFor(reasons[Len(reasons)])
           /\ redirectScheduled' =
                 (redirectScheduled
                    \/ \E k \in 1 .. Len(reasons) : SchedulesRedirect(reasons[k]))
    /\ UNCHANGED <<dpc, dAttempt, dLastError, dResult, dThrown, dCalls, dDelays,
                   dTransport>>
    /\ UNCHANGED <<headerVars, requestVars, retryVars, loginVars, contractVars>>

(***************************************************************************)
(* The functions of BlueCarbonCredit: a call that reverts changes nothing  *)
(***************************************************************************)
Reverts(op, sender, id, arg) ==
    /\ lastCall' = Call(op, sender, id, arg, TRUE)
    /\ UNCHANGED contractState

Returns(op, sender, id, arg) == lastCall' = Call(op, sender, id, arg, FALSE)

\* registerProject, lines 203-236
RegisterProject ==
    /\ projectIdCounter < MaxProjects
    /\ \E sender \in Accounts, name \in ProjectNames, location \in Locations,
          area \in Areas :
          IF name # "" /\ location # "" /\ area > 0
          THEN /\ projectIdCounter' = projectIdCounter + 1
               /\ projects' =
                     [projects EXCEPT ![projectIdCounter] =
                         Project(sender, "Registered", @.carbonAmount, @.verifier,
                                 @.approvedBy, TRUE, @.isRetired, @.mrvReports)]
               /\ Returns("registerProject", sender, 0, 0)
               /\ UNCHANGED <<roles, owner, paused, mrvReportIdCounter,
                              creditBatchIdCounter, tokenIdCounter, mrvReports,
                              creditBatches, tokenVars>>
          ELSE Reverts("registerProject", sender, 0, 0)
    /\ UNCHANGED clientVars

\* submitMRVReport, lines 241-277
SubmitMRVReport ==
    /\ mrvReportIdCounter < MaxReports
    /\ \E sender \in Accounts, projectId \in ProjectIds, period \in ReportingPeriods,
          measuredCarbon \in MeasuredCarbons :
          IF /\ onlyMRVOperator(sender)
             /\ projects[projectId].projectOwner # ZeroAddress
             /\ period[2] > period[1]
          THEN /\ mrvReportIdCounter' = mrvReportIdCounter + 1
               /\ mrvReports' =
                     [mrvReports EXCEPT ![mrvReportIdCounter] =
                         MRVReport(projectId, measuredCarbon, sender, @.verifier,
                                   @.isVerified)]
               /\ projects' =
                     [projects EXCEPT
                         ![projectId].mrvReports = Append(@, mrvReportIdCounter),
                         ![projectId].status =
                             IF @ = "Registered" THEN "UnderReview" ELSE @]
               /\ Returns("submitMRVReport", sender, 0, 0)
               /\ UNCHANGED <<roles, owner, paused, projectIdCounter,
                              creditBatchIdCounter, tokenIdCounter, creditBatches,
                              tokenVars>>
          ELSE Reverts("submitMRVReport", sender, 0, 0)
    /\ UNCHANGED clientVars

\* verifyMRVReport, lines 282-306
VerifyMRVReport ==
    /\ \E sender \in Accounts, reportId \in ReportIds, approved \in BOOLEAN :
          IF /\ onlyVerifier(sender)
             /\ CanVerify(mrvReports[reportId])
          THEN LET projectId == mrvReports[reportId].projectId
               IN  /\ mrvReports' = [mrvReports EXCEPT ![reportId].verifier = sender,
                                                       ![reportId].isVerified = TRUE]
                   /\ projects' =
                         IF ~approved THEN projects
                         ELSE IF projects[projectId].status = "UnderReview"
                         THEN [projects EXCEPT
                                  ![projectId].carbonAmount =
                                      @ + mrvReports[reportId].measuredCarbon,
                                  ![projectId].status = "Verified",
                                  ![projectId].verifier = sender]
                         ELSE [projects EXCEPT
                                  ![projectId].carbonAmount =
                                      @ + mrvReports[reportId].measuredCarbon]
                   /\ Returns("verifyMRVReport", sender, reportId, IF approved THEN 1 ELSE 0)
                   /\ UNCHANGED <<roles, owner, paused, counterVars, creditBatches,
                                  tokenVars>>
          ELSE Reverts("verifyMRVReport", sender, reportId, IF approved THEN 1 ELSE 0)
    /\ UNCHANGED clientVars

\* approveProject, lines 311-318
ApproveProject ==
    /\ \E sender \in Accounts, projectId \in ProjectIds :
          IF onlyRegistryAdmin(sender) /\ CanApprove(projects[projectId].status)
          THEN /\ projects' = [projects EXCEPT ![projectId].status = "Approved",
                                               ![projectId].approvedBy = sender]
               /\ Returns("approveProject", sender, 0, 0)
               /\ UNCHANGED <<roles, owner, paused, counterVars, mrvReports,
                              creditBatches, tokenVars>>
          ELSE Reverts("approveProject", sender, 0, 0)
    /\ UNCHANGED clientVars

\* issueCreditBatch, lines 323-354
IssueCreditBatch ==
    /\ creditBatchIdCounter < MaxBatches
    /\ \E sender \in Accounts, projectId \in ProjectIds, totalCredits \in TotalCredits :
          IF /\ onlyRegistryAdmin(sender)
             /\ CanIssue(projects[projectId].status)
             /\ totalCredits > 0
          THEN /\ creditBatchIdCounter' = creditBatchIdCounter + 1
               /\ creditBatches' =
                     [creditBatches EXCEPT ![creditBatchIdCounter] =
                         CreditBatch(projectId, totalCredits, totalCredits, sender,
                                     TRUE)]
               /\ projects' = [projects EXCEPT ![projectId].status = "Active"]
               /\ Returns("issueCreditBatch", sender, 0, 0)
               /\ UNCHANGED <<roles, owner, paused, projectIdCounter,
                              mrvReportIdCounter, tokenIdCounter, mrvReports,
                              tokenVars>>
          ELSE Reverts("issueCreditBatch", sender, 0, 0)
    /\ UNCHANGED clientVars

\* mintCredit, lines 360-390; block.timestamp is past the expiry date of the
\* batch or not, as the chain has it
MintCredit ==
    /\ tokenIdCounter < MaxTokens
    /\ \E sender \in Accounts, to \in Accounts \cup {ZeroAddress},
          batchId \in BatchIds, credits \in MintedCredits, expired \in BOOLEAN :
          IF /\ onlyRegistryAdmin(sender)
             /\ creditBatches[batchId].isActive
             /\ creditBatches[batchId].availableCredits >= credits
             /\ ~expired
             /\ to # ZeroAddress
             /\ TransferAllowed(tokenIdCounter, creditBatches[batchId].projectId)
          THEN /\ tokenIdCounter' = tokenIdCounter + 1
               /\ creditBatches' =
                     [creditBatches EXCEPT
                         ![batchId].availableCredits = AvailableAfterMint(@, credits)]
               /\ tokenToProject' =
                     [tokenToProject EXCEPT
                         ![tokenIdCounter] = creditBatches[batchId].projectId]
               /\ tokenToBatch' = [tokenToBatch EXCEPT ![tokenIdCounter] = batchId]
               /\ tokenOwner' = [tokenOwner EXCEPT ![tokenIdCounter] = to]
               /\ Returns("mintCredit", sender, batchId, credits)
               /\ UNCHANGED <<roles, owner, paused, projectIdCounter,
                              mrvReportIdCounter, creditBatchIdCounter, projects,
                              mrvReports>>
          ELSE Reverts("mintCredit", sender, batchId, credits)
    /\ UNCHANGED clientVars

\* retireCredit, lines 395-405
RetireCredit ==
    /\ \E sender \in Accounts, tokenId \in TokenIds :
          IF /\ tokenOwner[tokenId] = sender
             /\ ~projects[tokenToProject[tokenId]].isRetired
             /\ TransferAllowed(tokenId, tokenToProject[tokenId])
          THEN /\ projects' =
                     [projects EXCEPT ![tokenToProject[tokenId]].isRetired = TRUE]
               /\ tokenOwner' = [tokenOwner EXCEPT ![tokenId] = ZeroAddress]
               /\ Returns("retireCredit", sender, tokenId, 0)
               /\ UNCHANGED <<roles, owner, paused, counterVars, mrvReports,
                              creditBatches, tokenToProject, tokenToBatch>>
          ELSE Reverts("retireCredit", sender, tokenId, 0)
    /\ UNCHANGED clientVars

\* transferFrom of ERC721 called by the owner of the token, with the hook of
\* lines 531-547
TransferFrom ==
    /\ \E sender \in Accounts, to \in Accounts \cup {ZeroAddress}, tokenId \in TokenIds :
          IF /\ tokenOwner[tokenId] = sender
             /\ to # ZeroAddress
             /\ TransferAllowed(tokenId, tokenToProject[tokenId])
          THEN /\ tokenOwner' = [tokenOwner EXCEPT ![tokenId] = to]
               /\ Returns("transferFrom", sender, tokenId, 0)
               /\ UNCHANGED <<roles, owner, paused, counterVars, projects, mrvReports,
                              creditBatches, tokenToProject, tokenToBatch>>
          ELSE Reverts("transferFrom", sender, tokenId, 0)
    /\ UNCHANGED clientVars

\* pause, lines 410-412
Pause ==
    /\ \E sender \in Accounts :
          IF onlyOwner(sender) /\ ~paused
          THEN /\ paused' = TRUE
               /\ Returns("pause", sender, 0, 0)
               /\ UNCHANGED <<roles, owner, counterVars, projects, mrvReports,
                              creditBatches, tokenVars>>
          ELSE Reverts("pause", sender, 0, 0)
    /\ UNCHANGED clientVars

\* unpause, lines 417-419
Unpause ==
    /\ \E sender \in Accounts :
          IF onlyOwner(sender) /\ paused
          THEN /\ paused' = FALSE
               /\ Returns("unpause", sender, 0, 0)
               /\ UNCHANGED <<roles, owner, counterVars, projects, mrvReports,
                              creditBatches, tokenVars>>
          ELSE Reverts("unpause", sender, 0, 0)
    /\ UNCHANGED clientVars

\* a function that grants a role: _grantRole(role, account) under
\* onlyRegistryAdmin
AddRole(op, role) ==
    /\ \E sender \in Accounts, account \in Grantees :
          IF onlyRegistryAdmin(sender)
          THEN /\ roles' = [roles EXCEPT ![role] = @ \cup {account}]
               /\ Returns(op, sender, 0, 0)
               /\ UNCHANGED <<owner, paused, counterVars, projects, mrvReports,
                              creditBatches, tokenVars>>
          ELSE Reverts(op, sender, 0, 0)
    /\ UNCHANGED clientVars

\* addVerifier, lines 424-426
AddVerifier == AddRole("addVerifier", "VERIFIER_ROLE")

\* addAuditor, lines 431-433
AddAuditor == AddRole("addAuditor", "AUDITOR_ROLE")

\* addMRVOperator, lines 438-440
AddMRVOperator == AddRole("addMRVOperator", "MRV_OPERATOR_ROLE")

Next == StartRequest \/ FetchRejects \/ FetchResponds \/ TimerFires

Spec == Init /\ [][Next]_vars

\* every fetch settles and every timer set at line 222 fires
FairSpec ==
    /\ Spec
    /\ WF_vars(FetchRejects \/ FetchResponds)
    /\ WF_vars(TimerFires)

\* requests with any of the callers' options objects, while the page sets
\* and removes the token
HeaderNext ==
    \/ StartRequestAny
    \/ FetchRejects
    \/ FetchRespondsPlainly
    \/ TimerFires
    \/ SetAuthToken
    \/ RemoveAuthToken

HeaderSpec == Init /\ [][HeaderNext]_vars

\* requests and runs of retryAPIRequest, one after the other, while the page
\* sets and removes the token
CoreNext ==
    \/ StartRequest
    \/ FetchRejects
    \/ FetchRespondsPlainly
    \/ TimerFires
    \/ RetryStart
    \/ RetryOperationResolves
    \/ RetryOperationRejects
    \/ RetryTimerFires
    \/ SetAuthToken
    \/ RemoveAuthToken

CoreSpec == Init /\ [][CoreNext]_vars

\* runs of retryAPIRequest, one after the other, while the page sets and
\* removes the token
RetryNext ==
    \/ RetryStart
    \/ RetryOperationResolves
    \/ RetryOperationRejects
    \/ RetryTimerFires
    \/ SetAuthToken
    \/ RemoveAuthToken

RetrySpec == Init /\ [][RetryNext]_vars

\* logins, one after the other
LoginNext ==
    \/ AuthenticateUser
    \/ FetchRejects
    \/ FetchRespondsToLogin
    \/ TimerFires
    \/ AuthenticateUserReturns

LoginSpec == Init /\ [][LoginNext]_vars

\* one run of loadDashboardData, its requests interleaved in every order,
\* with a token stored by an earlier login
DashboardNext ==
    \/ SetAuthToken
    \/ LoadDashboardData
    \/ DashboardFetchSettles
    \/ DashboardTimerFires
    \/ DashboardReports

DashboardSpec == Init /\ [][DashboardNext]_vars

\* calls of the functions of the contract by the accounts, in any order
ContractNext ==
    \/ RegisterProject
    \/ SubmitMRVReport
    \/ VerifyMRVReport
    \/ ApproveProject
    \/ IssueCreditBatch
    \/ MintCredit
    \/ RetireCredit
    \/ TransferFrom
    \/ Pause
    \/ Unpause
    \/ AddVerifier
    \/ AddAuditor
    \/ AddMRVOperator

ContractSpec == Init /\ [][ContractNext]_vars

(***************************************************************************)
(* Vocabulary of the properties                                            *)
(***************************************************************************)
Last(seq) == seq[Len(seq)]

Attempts == 1 .. Len(history)

\* the attempt got a response whose body was decoded
GotStatus(i) == history[i].kind = "response" /\ history[i].decoded

\* the attempt got a decoded response with a status of the retryable set
FailedRetryably(i) == GotStatus(i) /\ history[i].status \in retryableStatuses

\* the attempt got a decoded 2xx response
Succeeded(i) == GotStatus(i) /\ history[i].status \in 200 .. 299

\* the error the latest attempt ended with
LastAttemptError ==
    IF Last(history).kind = "rejected" THEN FetchTypeError
    ELSE IF ~Last(history).decoded THEN JsonSyntaxError
    ELSE categorizeAPIError(lastOutcome.status, Decode(lastOutcome))

(***************************************************************************)
(* C1: one call of apiRequest performs at most maxRetries + 1 fetch calls  *)
(* (4 with the defaults), and exactly maxRetries + 1 when it has failed    *)
(* after every attempt got a retryable error.                              *)
(***************************************************************************)
C1_AtMostMaxRetriesPlusOneCalls ==
    /\ calls <= maxRetries + 1
    /\ calls <= 4
    /\ Len(history) <= calls
    /\ (pc = "failed" /\ history # <<>> /\ \A i \in Attempts : FailedRetryably(i))
           => calls = maxRetries + 1

C1_Witness ==
    /\ pc = "failed"
    /\ calls = maxRetries + 1
    /\ Len(history) = maxRetries + 1
    /\ \A i \in Attempts : FailedRetryably(i)

(***************************************************************************)
(* C2: an attempt that receives status 401, 400 or 422, at any attempt     *)
(* index, is the last one: no further fetch call is made and no delay is   *)
(* waited before the request fails; an error of class AuthenticationError  *)
(* or ValidationError never starts a timer; a classified 401 on the first  *)
(* call gives exactly one call and an AuthenticationError.                 *)
(***************************************************************************)
C2_AuthAndValidationNeverRetried ==
    /\ \A i \in Attempts :
          (history[i].kind = "response" /\ history[i].status \in {400, 401, 422})
              => /\ i = Len(history)
                 /\ pc = "failed"
                 /\ calls = i
                 /\ Len(delays) = i - 1
    /\ (InstanceOf(lastError, "AuthenticationError")
          \/ InstanceOf(lastError, "ValidationError"))
           => pc = "failed" /\ thrown = lastError
    /\ \A i \in Attempts :
          (GotStatus(i) /\ history[i].status = 401)
              => InstanceOf(thrown, "AuthenticationError")
    /\ \A i \in Attempts :
          (GotStatus(i) /\ history[i].status \in {400, 422})
              => InstanceOf(thrown, "ValidationError")
    /\ (history # <<>> /\ GotStatus(1) /\ history[1].status = 401)
           => /\ calls = 1
              /\ delays = <<>>
              /\ pc = "failed"
              /\ thrown.cls = "AuthenticationError"

C2_Witness ==
    /\ pc = "failed"
    /\ Len(history) = 3
    /\ FailedRetryably(1) /\ FailedRetryably(2)
    /\ GotStatus(3) /\ history[3].status = 422
    /\ thrown.cls = "ValidationError"
    /\ calls = 3
    /\ Len(delays) = 2

(***************************************************************************)
(* C3: for every status of {408, 429, 500, 502, 503, 504} the error that   *)
(* categorizeAPIError builds is retryable for shouldRetry at every attempt *)
(* index below maxRetries, and apiRequest makes another fetch call after   *)
(* such an attempt.                                                        *)
(***************************************************************************)
C3_RetryableStatusesAreRetried ==
    /\ (lastOutcome.status \in {408, 429, 500, 502, 503, 504} /\ Decodes(lastOutcome))
           => \A att \in 0 .. maxRetries - 1 :
                 shouldRetry(categorizeAPIError(lastOutcome.status, Decode(lastOutcome)),
                             att)
    /\ \A i \in Attempts :
          (GotStatus(i) /\ history[i].status \in {408, 429, 500, 502, 503, 504}
             /\ i - 1 < maxRetries)
              => \/ pc = "awaitDelay" /\ i = Len(history) /\ calls = i
                 \/ calls > i

C3_Witness ==
    /\ Len(history) = 3
    /\ GotStatus(1) /\ history[1].status = 408
    /\ GotStatus(2) /\ history[2].status = 429
    /\ GotStatus(3) /\ history[3].status = 503
    /\ pc = "awaitFetch"
    /\ calls = 4

(***************************************************************************)
(* C4: an attempt that receives a non-2xx status outside the retryable set *)
(* is the last one: no further fetch call is made and the request fails    *)
(* with the error of that attempt.                                         *)
(***************************************************************************)
C4_OtherStatusesNotRetried ==
    \A i \in Attempts :
       (/\ history[i].kind = "response"
        /\ history[i].status \notin 200 .. 299
        /\ history[i].status \notin {408, 429, 500, 502, 503, 504})
           => /\ i = Len(history)
              /\ pc = "failed"
              /\ calls = i
              /\ Len(delays) = i - 1
              /\ thrown = LastAttemptError
              /\ history[i].decoded /\ history[i].status \notin {400, 422}
                    => InstanceOf(thrown, "APIError")
                       /\ thrown.status = history[i].status

C4_Witness ==
    /\ pc = "failed"
    /\ Len(history) = 2
    /\ GotStatus(2) /\ history[2].status = 404
    /\ thrown.code = "NOT_FOUND"
    /\ calls = 2

(***************************************************************************)
(* C5: when fetch rejects on every call (the endpoint is unreachable), the *)
(* request makes maxRetries + 1 fetch calls and then fails with a          *)
(* NetworkError.                                                           *)
(***************************************************************************)
C5_NetworkFailureRetriedToExhaustion ==
    (pc = "failed" /\ history # <<>> /\ \A i \in Attempts : history[i].kind = "rejected")
        => /\ calls = maxRetries + 1
           /\ InstanceOf(thrown, "NetworkError")

(***************************************************************************)
(* C6: when the fetch of the last attempt rejected before a response was   *)
(* received, the error the request fails with is a NetworkError.           *)
(***************************************************************************)
C6_TransportFailureIsNetworkError ==
    (pc = "failed" /\ history # <<>> /\ Last(history).kind = "rejected")
        => thrown.cls = "NetworkError"

(***************************************************************************)
(* C7: an attempt that gets a 2xx response whose body is decoded is the    *)
(* last one: the request resolves with the decoded body of that response,  *)
(* no further fetch call is made and no further timer is set, whatever the *)
(* attempt index.                                                          *)
(***************************************************************************)
C7_ReturnsOnFirstSuccess ==
    /\ \A i \in Attempts :
          Succeeded(i)
              => /\ i = Len(history)
                 /\ pc = "done"
                 /\ calls = i
                 /\ Len(delays) = i - 1
                 /\ attempt = i - 1
                 /\ result = Decode(lastOutcome)
                 /\ result # NoResult
                 /\ thrown = NoError
    /\ pc = "done" => history # <<>> /\ Succeeded(Len(history))

C7_Witness ==
    /\ pc = "done"
    /\ Len(history) = 2
    /\ history[2].status = 204
    /\ attempt = 1
    /\ attempt < maxRetries
    /\ result = StringValue("pong")

(***************************************************************************)
(* C8: when the request fails, the error it rejects with is the error of   *)
(* the last attempt made, class and fields unchanged.                      *)
(***************************************************************************)
C8_FailsWithLastAttemptError ==
    pc = "failed"
        => /\ history # <<>>
           /\ thrown = LastAttemptError
           /\ thrown = lastError
           /\ thrown # NoError

C8_Witness ==
    /\ pc = "failed"
    /\ Len(history) = maxRetries + 1
    /\ history[1].status = 500
    /\ history[4].status = 429
    /\ thrown.code = "RATE_LIMITED"
    /\ thrown.status = 429

(***************************************************************************)
(* C9: when an attempt fails while attempt = maxRetries, the request fails *)
(* at once: shouldRetry is not called for that attempt and no timer is set *)
(* after it.                                                               *)
(***************************************************************************)
C9_NoPolicyNoDelayAfterFinalAttempt ==
    (Len(history) = maxRetries + 1 /\ ~Succeeded(maxRetries + 1))
        => /\ pc = "failed"
           /\ Len(delays) = maxRetries
           /\ \A k \in 1 .. Len(consulted) : consulted[k] # maxRetries

(***************************************************************************)
(* C10: the i-th timer of a request is set to retryDelay *                 *)
(* backoffMultiplier^(i-1) ms (1000, 2000, 4000 with the defaults), one    *)
(* timer is waited between two consecutive fetch calls, and for responses  *)
(* 429, 429, 200 the request makes 3 calls, waits 1000 ms then 2000 ms and *)
(* resolves with the body of the 200 response.                             *)
(***************************************************************************)
C10_ExponentialBackoffBetweenCalls ==
    /\ \A i \in 1 .. Len(delays) : delays[i] = retryDelay * backoffMultiplier ^ (i - 1)
    /\ Len(delays) >= 3 => SubSeq(delays, 1, 3) = <<1000, 2000, 4000>>
    /\ pc = "awaitFetch" => Len(delays) = calls - 1 /\ Len(history) = calls - 1
    /\ pc = "awaitDelay" => Len(delays) = calls /\ Len(history) = calls
    /\ pc = "done" => Len(delays) = calls - 1
    /\ (/\ Len(history) = 3
        /\ GotStatus(1) /\ history[1].status = 429
        /\ GotStatus(2) /\ history[2].status = 429
        /\ GotStatus(3) /\ history[3].status = 200)
           => /\ calls = 3
              /\ delays = <<1000, 2000>>
              /\ pc = "done"
              /\ result = Decode(lastOutcome)
              /\ (IsJsonContentType(lastOutcome.contentType)
                    /\ lastOutcome.body = "{\"ok\":true}")
                     => result = ObjectValue(Undefined, Undefined, "true")

C10_Witness ==
    /\ pc = "done"
    /\ Len(history) = 3
    /\ history[1].status = 429
    /\ history[2].status = 429
    /\ history[3].status = 200
    /\ delays = <<1000, 2000>>
    /\ calls = 3
    /\ result = ObjectValue(Undefined, Undefined, "true")

(***************************************************************************)
(* C11: provided every fetch settles and every timer fires, a request that *)
(* is awaiting a fetch or a timer eventually resolves or rejects; it never *)
(* retries forever.                                                        *)
(***************************************************************************)
C11_RequestTerminates ==
    (pc \in {"awaitFetch", "awaitDelay"}) ~> (pc \in {"done", "failed"})

C11_Witness ==
    /\ pc = "failed"
    /\ calls = maxRetries + 1
    /\ Len(delays) = maxRetries + 1

(***************************************************************************)
(* C12: categorizeAPIError maps a non-2xx status to one class and code:    *)
(* 400 and 422 to ValidationError, 401 to AuthenticationError, 403 to      *)
(* FORBIDDEN, 404 to NOT_FOUND, 409 to CONFLICT, 429 to RATE_LIMITED,      *)
(* 500/502/503/504 to ServerError, any other status to UNKNOWN_ERROR.      *)
(***************************************************************************)
C12_ExpectedClass(status) ==
    CASE status \in {400, 422} -> "ValidationError"
      [] status = 401 -> "AuthenticationError"
      [] status \in {500, 502, 503, 504} -> "ServerError"
      [] OTHER -> "APIError"

C12_ExpectedCode(status) ==
    CASE status \in {400, 422} -> "VALIDATION_ERROR"
      [] status = 401 -> "AUTHENTICATION_ERROR"
      [] status = 403 -> "FORBIDDEN"
      [] status = 404 -> "NOT_FOUND"
      [] status = 409 -> "CONFLICT"
      [] status = 429 -> "RATE_LIMITED"
      [] status \in {500, 502, 503, 504} -> "SERVER_ERROR"
      [] OTHER -> "UNKNOWN_ERROR"

C12_ClassificationTable ==
    (history # <<>> /\ GotStatus(Len(history))
       /\ Last(history).status \notin 200 .. 299)
        => /\ lastError.cls = C12_ExpectedClass(Last(history).status)
           /\ lastError.code = C12_ExpectedCode(Last(history).status)

C12_Witness ==
    /\ pc = "failed"
    /\ Len(history) = 1
    /\ GotStatus(1) /\ history[1].status = 422
    /\ thrown.cls = "ValidationError"
    /\ thrown.code = "VALIDATION_ERROR"

(***************************************************************************)
(* C13 as stated: the message of the classified error is body.message when *)
(* the body has a message property, otherwise body.error when the body has *)
(* an error property, otherwise "HTTP <status> error".                     *)
(***************************************************************************)
C13_Classified ==
    /\ history # <<>>
    /\ GotStatus(Len(history))
    /\ Last(history).status \notin 200 .. 299
    /\ pc \in {"awaitDelay", "failed"}

C13_MessageWhenPresent ==
    C13_Classified
        => LET data == Decode(lastOutcome)
           IN  lastError.message =
                  IF data.message # Undefined THEN Message(data.message, NoStatus)
                  ELSE IF data.error # Undefined THEN Message(data.error, NoStatus)
                  ELSE Message("HTTP <status> error", lastOutcome.status)

(***************************************************************************)
(* C13 amended: the message of the classified error is body.message when   *)
(* it is present and not empty, otherwise body.error when it is present    *)
(* and not empty, otherwise "HTTP <status> error" with the response status.*)
(***************************************************************************)
C13_MessageWhenNonEmpty ==
    C13_Classified
        => LET data == Decode(lastOutcome)
           IN  lastError.message =
                  IF data.message \notin {Undefined, ""}
                  THEN Message(data.message, NoStatus)
                  ELSE IF data.error \notin {Undefined, ""}
                  THEN Message(data.error, NoStatus)
                  ELSE Message("HTTP <status> error", lastOutcome.status)

C13_Witness ==
    /\ pc = "failed"
    /\ lastOutcome.status = 404
    /\ IsJsonContentType(lastOutcome.contentType)
    /\ lastOutcome.body = "{\"message\":\"\",\"error\":\"oops\"}"
    /\ thrown.message = Message("oops", NoStatus)

(***************************************************************************)
(* C14: for every non-2xx response the request raises the classified error *)
(* and the decoded response body is the data of that error.                *)
(***************************************************************************)
C14_DecodedBodyIsErrorPayload ==
    (/\ history # <<>>
     /\ GotStatus(Len(history))
     /\ Last(history).status \notin 200 .. 299
     /\ pc \in {"awaitDelay", "failed"})
        => /\ InstanceOf(lastError, "APIError")
           /\ result = NoResult
           /\ lastError.data = Decode(lastOutcome)

C20_EveryFailureIsTyped ==
    pc = "failed"
        => /\ thrown # NoError
           /\ thrown.cls \in {"NetworkError", "AuthenticationError", "ValidationError",
                              "ServerError", "APIError"}

(***************************************************************************)
(* C15: the headers a fetch call carries are the default Content-Type:     *)
(* application/json merged with the caller's headers: every caller header  *)
(* is sent, a caller Content-Type replaces the default, and the default is *)
(* sent when the caller's headers have no Content-Type.                    *)
(***************************************************************************)
C15_DefaultContentTypeMergedWithCallerHeaders ==
    pc = "awaitFetch"
        => LET caller == IF HasHeaders(optionsArg) THEN headersAtCall[optionsArg]
                         ELSE NoHeaders
           IN  /\ \A h \in {"contentType", "xRequestedWith"} :
                     caller[h] # Undefined => sentHeaders[h] = caller[h]
               /\ caller.contentType = Undefined
                     => sentHeaders.contentType = "application/json"

(***************************************************************************)
(* C16: every fetch call, the first and each retry, carries Authorization: *)
(* Bearer <token> with the token stored when the call is made, and no      *)
(* Authorization header when the store is empty at that time.              *)
(***************************************************************************)
C16_AuthorizationIffTokenStored ==
    pc = "awaitFetch"
        => sentHeaders.authorization =
              IF tokenAtFetch # NoToken THEN Bearer(tokenAtFetch) ELSE Undefined

(***************************************************************************)
(* C18: when a request has completed, the headers object of the options    *)
(* object it was called with holds the entries it held before the call.    *)
(***************************************************************************)
C18_OptionsHeadersUnchanged ==
    (pc \in {"done", "failed"} /\ HasHeaders(optionsArg))
        => optionsHeaders[optionsArg] = headersAtCall[optionsArg]

(***************************************************************************)
(* C19 as stated: no step of apiRequest or of retryAPIRequest changes the  *)
(* stored token, whatever the outcome.                                     *)
(***************************************************************************)
C19_CoreNeverWritesToken ==
    [][(pc' # pc \/ rpc' # rpc) => authToken' = authToken]_vars

(***************************************************************************)
(* C19 amended: no step of apiRequest changes the stored token, and a step *)
(* of retryAPIRequest changes it only when the run gives up with an        *)
(* AuthenticationError, handleAPIError then removing the token.            *)
(***************************************************************************)
C19_OnlyGivingUpOnAuthenticationClearsToken ==
    [][((pc' # pc \/ rpc' # rpc) /\ authToken' # authToken)
          => /\ pc' = pc
             /\ rpc = "awaitFn"
             /\ rpc' = "failed"
             /\ InstanceOf(rThrown', "AuthenticationError")
             /\ authToken' = NoToken]_vars

C19_Witness ==
    /\ pc = "failed"
    /\ InstanceOf(thrown, "AuthenticationError")
    /\ tokenAtFetch # NoToken
    /\ rpc = "failed"
    /\ InstanceOf(rThrown, "AuthenticationError")
    /\ hookCalls = <<rThrown>>
    /\ authToken = NoToken
    /\ redirectScheduled

(***************************************************************************)
(* C21: a run of retryAPIRequest calls the operation at most cap + 1 times *)
(* (3 with the default cap 2); when it has returned, the value is that of  *)
(* the latest call, every call before it failed and was followed by a      *)
(* delay; it waits only after a failure shouldRetry accepts; the k-th      *)
(* delay of a run is retryDelay * backoffMultiplier^(k-1).                 *)
(***************************************************************************)
C21_RetryHelperRetriesWithBackoff ==
    /\ rInvocations <= rMaxRetries + 1
    /\ rMaxRetries = 2 => rInvocations <= 3
    /\ rpc = "done"
          => /\ rResult \in OperationValues
             /\ rInvocations = Len(rDelays) + 1
             /\ rInvocations = rAttempt + 1
    /\ rpc = "awaitDelay"
          => /\ rLastError.cls \notin {"AuthenticationError", "ValidationError"}
             /\ \/ rLastError.cls = "NetworkError"
                \/ /\ rLastError.cls \in {"APIError", "ServerError"}
                   /\ rLastError.status \in {408, 429, 500, 502, 503, 504}
    /\ rpc = "awaitFn" => Len(rDelays) = rInvocations - 1
    /\ Len(rDelays) <= rMaxRetries
    /\ \A k \in 1 .. Len(rDelays) : rDelays[k] = 1000 * Pow(2, k - 1)

C21_Witness ==
    /\ rpc = "done"
    /\ rMaxRetries = 2
    /\ rInvocations = 3
    /\ rDelays = <<1000, 2000>>

(***************************************************************************)
(* C22: when a run of retryAPIRequest has re-raised an error, it has       *)
(* passed that error, the last one the operation failed with, to           *)
(* handleAPIError exactly once; handleAPIError is not called before the    *)
(* run gives up, and not at all in a run that returns.                     *)
(***************************************************************************)
C22_GivingUpReportsOnceThenRethrows ==
    /\ rpc = "failed"
          => /\ rThrown # NoError
             /\ rThrown = rLastError
             /\ hookCalls = <<rThrown>>
             /\ notification = NotificationFor(rThrown)
    /\ rpc # "failed" => hookCalls = <<>> /\ rThrown = NoError
    /\ rpc = "done" => hookCalls = <<>>

C22_Witness ==
    /\ rpc = "failed"
    /\ rInvocations = 3
    /\ rThrown.cls = "ServerError"
    /\ hookCalls = <<rThrown>>
    /\ notification.text = "Server is temporarily unavailable. Please try again later."

(***************************************************************************)
(* C23: when a request of loadDashboardData has settled, whatever the      *)
(* interleaving with the other requests, its number of fetch calls, its    *)
(* delays and its result or error are those of apiRequest run by itself on *)
(* the outcomes its own fetch calls got; its attempt counter counts its    *)
(* own delays and its lastError is the error of its own latest failure.    *)
(***************************************************************************)
C23_ConcurrentRequestsAreIndependent ==
    \A i \in DashboardRequests :
       /\ dpc[i] \in {"done", "failed"}
             => RunAlone(dTransport[i], 0, NoError) =
                   [settled |-> TRUE, calls |-> dCalls[i], delays |-> dDelays[i],
                    result |-> dResult[i], thrown |-> dThrown[i]]
       /\ dAttempt[i] = Len(dDelays[i]) - (IF dpc[i] = "awaitDelay" THEN 1 ELSE 0)
       /\ dpc[i] \in {"awaitDelay", "failed"}
             => dLastError[i] = AttemptError(Last(dTransport[i]))

C23_Witness ==
    /\ dPhase = "loaded"
    /\ dpc[1] = "failed"
    /\ dCalls[1] = 4
    /\ dDelays[1] = <<1000, 2000, 4000, 8000>>
    /\ dpc[2] = "failed"
    /\ dCalls[2] = 2
    /\ dThrown[2].cls = "AuthenticationError"
    /\ dDelays[2] = <<1000>>

(***************************************************************************)
(* C24: when authenticateUser passes an AuthenticationError to             *)
(* handleAPIError the token store is empty afterwards, and when it passes  *)
(* an error of any other kind the stored token is the one before the call. *)
(***************************************************************************)
C24_OnlyAuthenticationErrorClearsToken ==
    [][(lpc = "awaitRequest" /\ lpc' = "returned" /\ lHandled' # NoError)
          => IF lHandled'.cls = "AuthenticationError"
             THEN authToken' = NoToken /\ ~Truthy(authToken')
             ELSE authToken' = authToken]_vars

C24_Witness ==
    /\ lpc = "returned"
    /\ lHandled.cls = "AuthenticationError"
    /\ tokenAtFetch \in Tokens
    /\ authToken = NoToken
    /\ redirectScheduled

(***************************************************************************)
(* C25: for every non-2xx response the status of the error the request     *)
(* raises is the HTTP status of that response.                             *)
(***************************************************************************)
C25_ErrorStatusIsResponseStatus ==
    C13_Classified => lastError.status = lastOutcome.status

(***************************************************************************)
(* C26: a run of retryAPIRequest that has ended has waited one delay less  *)
(* than it has called the operation; a failure at attempt index equal to   *)
(* the cap starts no delay.                                                *)
(***************************************************************************)
C26_NoDelayAfterFinalInvocation ==
    /\ rpc \in {"done", "failed"} => Len(rDelays) = rInvocations - 1
    /\ rpc = "awaitDelay" => rAttempt < rMaxRetries
    /\ (rpc = "failed" /\ rAttempt = rMaxRetries)
          => /\ rInvocations = rMaxRetries + 1
             /\ Len(rDelays) = rMaxRetries

C26_Witness ==
    /\ rpc = "failed"
    /\ rMaxRetries = 2
    /\ rAttempt = 2
    /\ rInvocations = 3
    /\ rThrown.status = 503
    /\ rDelays = <<1000, 2000>>

(***************************************************************************)
(* C27: an attempt that ends with an error of none of the typed classes,   *)
(* the TypeError of a rejected fetch or the SyntaxError of a body that     *)
(* does not decode, is the last one: no further fetch call is made, no     *)
(* delay is waited, and the request raises that same error.                *)
(***************************************************************************)
C27_UntypedErrorIsNotRetried ==
    \A i \in Attempts :
       (history[i].kind = "rejected" \/ ~history[i].decoded)
          => /\ i = Len(history)
             /\ pc = "failed"
             /\ calls = i
             /\ Len(delays) = i - 1
             /\ thrown = lastError
             /\ thrown = (IF history[i].kind = "rejected" THEN FetchTypeError
                          ELSE JsonSyntaxError)
             /\ ~InstanceOf(thrown, "NetworkError") /\ ~InstanceOf(thrown, "APIError")

C27_Witness ==
    /\ pc = "failed"
    /\ Len(history) = 3
    /\ FailedRetryably(1) /\ FailedRetryably(2)
    /\ history[3].kind = "response" /\ ~history[3].decoded
    /\ thrown = JsonSyntaxError
    /\ calls = 3
    /\ delays = <<1000, 2000>>

C29_StatusMovesForwardOneStage ==
    [][/\ \A p \in ProjectIds :
             projects'[p].status # projects[p].status
                => /\ projects[p].status
                         \in {"Registered", "UnderReview", "Verified", "Approved"}
                   /\ StatusRank(projects'[p].status) = StatusRank(projects[p].status) + 1
       /\ (lastCall'.op = "approveProject" /\ ~lastCall'.reverted)
             => \E p \in ProjectIds : /\ projects[p].status = "Verified"
                                      /\ projects'[p].status = "Approved"
       /\ (lastCall'.op = "issueCreditBatch" /\ ~lastCall'.reverted)
             => \E p \in ProjectIds : /\ projects[p].status = "Approved"
                                      /\ projects'[p].status = "Active"]_vars

C29_Witness ==
    /\ lastCall = Call("issueCreditBatch", Deployer, 0, 0, FALSE)
    /\ \E p \in ProjectIds :
          /\ projects[p].status = "Active"
          /\ projects[p].approvedBy = Deployer
          /\ projects[p].verifier # ZeroAddress
          /\ creditBatches[0].projectId = p
          /\ creditBatches[0].isActive

\* the role the modifier of a function requires of the caller
RequiredRole(op) ==
    CASE op = "submitMRVReport" -> "MRV_OPERATOR_ROLE"
      [] op = "verifyMRVReport" -> "VERIFIER_ROLE"
      [] OTHER -> "REGISTRY_ADMIN_ROLE"

PrivilegedOperations ==
    {"submitMRVReport", "verifyMRVReport", "approveProject", "issueCreditBatch",
     "mintCredit", "addVerifier", "addAuditor", "addMRVOperator"}

(***************************************************************************)
(* C30: a call of submitMRVReport by an account that is no MRV operator,   *)
(* of verifyMRVReport by one that is no verifier, or of approveProject,    *)
(* issueCreditBatch, mintCredit, addVerifier, addAuditor or addMRVOperator *)
(* by one that is no registry admin reverts and changes nothing.           *)
(***************************************************************************)
C30_RoleChecksGuardPrivilegedOperations ==
    [][(/\ lastCall'.op \in PrivilegedOperations
        /\ lastCall'.sender \notin roles[RequiredRole(lastCall'.op)])
          => /\ lastCall'.reverted
             /\ contractState' = contractState]_vars

C30_Witness ==
    /\ lastCall = Call("approveProject", "alice", 0, 0, TRUE)
    /\ "alice" \notin roles["REGISTRY_ADMIN_ROLE"]
    /\ "alice" \in roles["MRV_OPERATOR_ROLE"]
    /\ \E p \in ProjectIds : projects[p].status = "Verified"

(***************************************************************************)
(* C31: the available credits of a batch are never more than its total     *)
(* credits nor less than 0; a mintCredit that returns lowers the available *)
(* credits of its batch by the credits asked and leaves the total, a new   *)
(* batch starts with all its credits available, and no other call changes  *)
(* a batch, so that total minus available is the sum of the credits        *)
(* minted; a mintCredit asking for more than the available credits, or     *)
(* from a batch that is not active, reverts and changes nothing.           *)
(***************************************************************************)
C31_BatchAccountsForMintedCredits ==
    [][/\ \A b \in BatchIds :
             /\ creditBatches'[b].availableCredits >= 0
             /\ creditBatches'[b].availableCredits <= creditBatches'[b].totalCredits
             /\ IF lastCall'.op = "mintCredit" /\ ~lastCall'.reverted /\ lastCall'.id = b
                THEN /\ creditBatches'[b].totalCredits = creditBatches[b].totalCredits
                     /\ (creditBatches'[b].totalCredits
                           - creditBatches'[b].availableCredits)
                          = (creditBatches[b].totalCredits
                               - creditBatches[b].availableCredits) + lastCall'.arg
                ELSE IF /\ lastCall'.op = "issueCreditBatch"
                        /\ ~lastCall'.reverted
                        /\ b = creditBatchIdCounter
                THEN /\ creditBatches'[b].totalCredits > 0
                     /\ creditBatches'[b].availableCredits = creditBatches'[b].totalCredits
                ELSE creditBatches'[b] = creditBatches[b]
       /\ (/\ lastCall'.op = "mintCredit"
           /\ \/ lastCall'.arg > creditBatches[lastCall'.id].availableCredits
              \/ ~creditBatches[lastCall'.id].isActive)
             => /\ lastCall'.reverted
                /\ contractState' = contractState]_vars

C31_Witness ==
    /\ lastCall = Call("mintCredit", Deployer, 0, 1, FALSE)
    /\ tokenIdCounter = 2
    /\ creditBatches[0].totalCredits = 2
    /\ creditBatches[0].availableCredits = 0

(***************************************************************************)
(* C32: a verifyMRVReport on a report that is already verified reverts and *)
(* changes nothing, a verified report never changes again, and the         *)
(* carbonAmount of a project grows by the measuredCarbon of a report       *)
(* exactly when a verifyMRVReport with approved = true on a report of the  *)
(* project returns, so that it is the sum over the approved reports.       *)
(***************************************************************************)
C32_ReportsVerifiedOnceAndCarbonSummed ==
    [][/\ (lastCall'.op = "verifyMRVReport" /\ mrvReports[lastCall'.id].isVerified)
             => /\ lastCall'.reverted
                /\ contractState' = contractState
       /\ \A r \in ReportIds :
             mrvReports[r].isVerified => mrvReports'[r] = mrvReports[r]
       /\ \A p \in ProjectIds :
             projects'[p].carbonAmount =
                projects[p].carbonAmount
                  + (IF /\ lastCall'.op = "verifyMRVReport"
                        /\ ~lastCall'.reverted
                        /\ lastCall'.arg = 1
                        /\ mrvReports[lastCall'.id].projectId = p
                     THEN mrvReports[lastCall'.id].measuredCarbon
                     ELSE 0)]_vars

C32_Witness ==
    /\ lastCall = Call("verifyMRVReport", Deployer, 1, 1, TRUE)
    /\ mrvReports[0].isVerified
    /\ mrvReports[1].isVerified
    /\ mrvReports[1].verifier = "alice"
    /\ projects[0].carbonAmount = 10

(***************************************************************************)
(* C33: while the contract is not paused, a retireCredit called by the     *)
(* owner of an existing token returns, whatever tokens were retired        *)
(* before, also tokens of the same project.                                *)
(***************************************************************************)
C33_OtherTokensStayRetirable ==
    [][(/\ lastCall'.op = "retireCredit"
        /\ tokenOwner[lastCall'.id] = lastCall'.sender
        /\ ~paused)
          => ~lastCall'.reverted]_vars

(***************************************************************************)
(* C34: while the contract is paused, mintCredit, transferFrom and         *)
(* retireCredit revert and no token is minted, moved or burned; pause and  *)
(* unpause revert for a caller that is not the owner, and only they change *)
(* whether the contract is paused.                                         *)
(***************************************************************************)
C34_PausedFreezesTokens ==
    [][/\ (paused /\ lastCall'.op \in {"mintCredit", "transferFrom", "retireCredit"})
             => /\ lastCall'.reverted
                /\ contractState' = contractState
       /\ (paused /\ lastCall'.op \notin {"unpause"})
             => tokenOwner' = tokenOwner /\ tokenIdCounter' = tokenIdCounter
       /\ (lastCall'.op \in {"pause", "unpause"} /\ lastCall'.sender # owner)
             => /\ lastCall'.reverted
                /\ paused' = paused
       /\ paused' # paused
             => /\ lastCall'.op = (IF paused THEN "unpause" ELSE "pause")
                /\ lastCall'.sender = owner
                /\ ~lastCall'.reverted]_vars

C34_Witness ==
    /\ paused
    /\ lastCall = Call("retireCredit", "alice", 0, 0, TRUE)
    /\ tokenOwner[0] = "alice"
    /\ ~projects[tokenToProject[0]].isRetired

(***************************************************************************)
(* C35: a verifyMRVReport with approved = false that returns on a report   *)
(* of a project that is UnderReview makes the status of the project        *)
(* Rejected.                                                               *)
(***************************************************************************)
C35_FailedVerificationRejectsProject ==
    [][(/\ lastCall'.op = "verifyMRVReport"
        /\ ~lastCall'.reverted
        /\ lastCall'.arg = 0
        /\ projects[mrvReports[lastCall'.id].projectId].status = "UnderReview")
          => projects'[mrvReports[lastCall'.id].projectId].status = "Rejected"]_vars

====
